---- MODULE Spec2Model ----
(***************************************************************************)
(* Model of hecat's exporters/markdown_multipage.py: the pipeline          *)
(* render_markdown_multipage with render_markdown_toctree,                 *)
(* render_item_page and render_markdown_software.                          *)
(*                                                                         *)
(* Text is modelled as a sequence: a Python str that is a name or a file   *)
(* name is a sequence of atoms (characters, and the fixed pieces ".md",    *)
(* "index", "custom.css"), a rendered page is a sequence of blocks, and    *)
(* str concatenation is \o.  A dict is a function whose DOMAIN is its set  *)
(* of keys, so  'k' in d  is  "k" \in DOMAIN d.                            *)
(***************************************************************************)
EXTENDS Integers, Sequences, FiniteSets, TLC

\* ---------------------------------------------------------------- bounds
MaxTags == 2
MaxPlatforms == 1
MaxProjects == 2
\* days looked at on each side of the two age thresholds
Slack == 1
\* clock resolution: instants per day (0 is midnight)
TicksPerDay == 2

\* ------------------------------------------------------ program constants
\* timedelta(days=365) and timedelta(days=186)
AlertDays == 365
WarningDays == 186

\* ------------------------------------------------------------------ text
\* code point order of the atoms used in names
Ord(c) ==
    CASE c = " " -> 32
      [] c = "(" -> 40
      [] c = ")" -> 41
      [] c = "-" -> 45
      [] c = "A" -> 65
      [] c = "P" -> 80
      [] c = "a" -> 97
      [] c = "b" -> 98
      [] c = "p" -> 112
      [] OTHER -> 0

RECURSIVE StrLess(_, _)
StrLess(s, t) ==
    IF t = <<>> THEN FALSE
    ELSE IF s = <<>> THEN TRUE
    ELSE IF Ord(Head(s)) # Ord(Head(t)) THEN Ord(Head(s)) < Ord(Head(t))
    ELSE StrLess(Tail(s), Tail(t))

StrLeq(s, t) == s = t \/ StrLess(s, t)

\* load_yaml_data(path, sort_key='name') returns the records sorted by name
IsSortedByName(items) ==
    \A k \in 1..(Len(items) - 1) : StrLeq(items[k]["name"], items[k + 1]["name"])

\* utils.to_kebab_case: lowercase, spaces to hyphens, parentheses dropped
\* (module docstring: "Archiving and Digital Preservation (DP)" is the page
\* archiving-and-digital-preservation-dp)
KebabAtom(c) ==
    CASE c = " " -> <<"-">>
      [] c = "(" -> <<>>
      [] c = ")" -> <<>>
      [] c = "A" -> <<"a">>
      [] c = "P" -> <<"p">>
      [] OTHER -> <<c>>

RECURSIVE to_kebab_case(_)
to_kebab_case(string) ==
    IF string = <<>> THEN <<>>
    ELSE KebabAtom(Head(string)) \o to_kebab_case(Tail(string))

\* urllib.parse.quote: unreserved characters are kept, a space is escaped
QuoteAtom(c) == IF c = " " THEN "%20" ELSE c

quote(string) == [k \in 1..Len(string) |-> QuoteAtom(string[k])]

\* all sequences over S of length at most n
SeqUpTo(S, n) == UNION {[1..m -> S] : m \in 0..n}

Range(f) == {f[k] : k \in DOMAIN f}

\* ----------------------------------------------------------------- paths
\* A path is a sequence of components, each a sequence of atoms, so that
\* a + '/md/' + b is the concatenation of the three component lists.
Dirname(path) == SubSeq(path, 1, Len(path) - 1)

source_directory == << <<"src">> >>

output_directory == << <<"out">> >>

\* --------------------------------------------------------------- templates
MARKDOWN_CSS == [block |-> "css"]

MARKDOWN_INDEX_CONTENT_HEADER == [block |-> "index_content_header"]

MARKDOWN_TAGPAGE_CONTENT_HEADER == [block |-> "tagpage_content_header"]

MARKDOWN_PLATFORMPAGE_CONTENT_HEADER == [block |-> "platformpage_content_header"]

\* an undefined Jinja value prints as the empty string and iterates as empty
JinjaText(d, key) == IF key \in DOMAIN d THEN d[key] ELSE ""

JinjaList(d, key) == IF key \in DOMAIN d THEN d[key] ELSE <<>>

\* The text the software template emits.  The template reads software,
\* platforms, tags and licenses_relative_url; it has no placeholder for
\* date_css_class nor for software['updated_at'].
SoftwareTemplateWithAge(software, tags, platforms, date_css_class, licenses_relative_url) ==
    [block |-> "software",
     name |-> JinjaText(software, "name"),
     platforms |-> platforms,
     licenses |-> JinjaList(software, "licenses"),
     licenses_relative_url |-> licenses_relative_url,
     tags |-> tags,
     date_css_class |-> date_css_class]

SOFTWARE_JINJA_MARKDOWN(software, tags, platforms, date_css_class, licenses_relative_url) ==
    [block |-> "software",
     name |-> JinjaText(software, "name"),
     platforms |-> platforms,
     licenses |-> JinjaList(software, "licenses"),
     licenses_relative_url |-> licenses_relative_url,
     tags |-> tags]

TAG_HEADER_JINJA_MARKDOWN(item) == [block |-> "tag_header", item |-> item]

PLATFORM_HEADER_JINJA_MARKDOWN(item) == [block |-> "platform_header", item |-> item]

\* ------------------------------------------------- render_markdown_software
\* datetime.strptime(updated_at, "%Y-%m-%d"): midnight of that day
strptime(updated_at) == updated_at * TicksPerDay

timedelta(days) == days * TicksPerDay

date_css_class_of(software, now) ==
    IF "updated_at" \in DOMAIN software
    THEN LET last_update_time == strptime(software["updated_at"])
         IN  IF last_update_time < now - timedelta(AlertDays) THEN "redbox"
             ELSE IF last_update_time < now - timedelta(WarningDays) THEN "orangebox"
             ELSE "updated-at"
    ELSE "updated-at"

LinkDict(name, relative_url) ==
    [name |-> name, href |-> relative_url \o quote(to_kebab_case(name)) \o <<".html">>]

RaisesGet(software, tags_relative_url, platforms_relative_url, licenses_relative_url, now) ==
    FALSE

\* software['tags'] raises KeyError when the record has no tags
render_raises(software, tags_relative_url, platforms_relative_url, licenses_relative_url, now) ==
    "tags" \notin DOMAIN software

\* the returned markdown; defined when render_raises is false
render_markdown_software(software, tags_relative_url, platforms_relative_url, licenses_relative_url, now) ==
    LET tags_dicts_list ==
            [k \in 1..Len(JinjaList(software, "tags")) |->
                LinkDict(software["tags"][k], tags_relative_url)]
        platforms_dicts_list ==
            IF "platforms" \in DOMAIN software
            THEN [k \in 1..Len(software["platforms"]) |->
                    LinkDict(software["platforms"][k], platforms_relative_url)]
            ELSE <<>>
        date_css_class == date_css_class_of(software, now)
    IN  SOFTWARE_JINJA_MARKDOWN(software, tags_dicts_list, platforms_dicts_list,
                                date_css_class, licenses_relative_url)

\* ---------------------------------------------------------- render_item_page
\* the per-kind settings chosen by item_type
ItemSettings(module_options, item_type) ==
    IF item_type = "tag"
    THEN [markdown_fieldlist |-> <<>>,
          content_header |-> MARKDOWN_TAGPAGE_CONTENT_HEADER,
          match_key |-> "tags",
          tags_relative_url |-> <<"./">>,
          platforms_relative_url |-> <<"../platforms/">>,
          output_dir |-> module_options["output_directory"] \o << <<"md">>, <<"tags">> >>]
    ELSE [markdown_fieldlist |-> <<[block |-> "fieldlist", text |-> ":orphan:\n:nosearch:\n"]>>,
          content_header |-> MARKDOWN_PLATFORMPAGE_CONTENT_HEADER,
          match_key |-> "platforms",
          tags_relative_url |-> <<"../tags/">>,
          platforms_relative_url |-> <<"./">>,
          output_dir |-> module_options["output_directory"] \o << <<"md">>, <<"platforms">> >>]

ItemHeader(item_type, item) ==
    IF item_type = "tag" THEN TAG_HEADER_JINJA_MARKDOWN(item)
    ELSE PLATFORM_HEADER_JINJA_MARKDOWN(item)

PageFilterOff(software, exclude_licenses) == "keep"

\* the license test of the page loop: "raise" (KeyError on
\* software['licenses'], or on software['name'] in the debug call), "skip"
\* or "keep"
page_filter(software, exclude_licenses) ==
    IF exclude_licenses = <<>> THEN "keep"
    ELSE IF "licenses" \notin DOMAIN software THEN "raise"
    ELSE IF \E k \in 1..Len(exclude_licenses) :
                exclude_licenses[k] \in Range(software["licenses"])
         THEN (IF "name" \in DOMAIN software THEN "skip" ELSE "raise")
         ELSE "keep"

MatchesBySlug(software, match_key, item) ==
    /\ match_key \in DOMAIN software
    /\ \E k \in 1..Len(software[match_key]) :
          to_kebab_case(software[match_key][k]) = to_kebab_case(item["name"])

\* match_key in software and any(value == item['name'] ...)
item_matches(software, match_key, item) ==
    /\ match_key \in DOMAIN software
    /\ \E k \in 1..Len(software[match_key]) : software[match_key][k] = item["name"]

\* the loop over software_list: [raised, list]
RECURSIVE item_software_list(_, _, _, _, _)
item_software_list(exclude_licenses, settings, item, software_list, now) ==
    IF software_list = <<>> THEN [raised |-> FALSE, list |-> <<>>]
    ELSE LET software == Head(software_list)
             verdict == page_filter(software, exclude_licenses)
             rest == item_software_list(exclude_licenses, settings, item,
                                        Tail(software_list), now)
         IN  IF verdict = "raise" THEN [raised |-> TRUE, list |-> <<>>]
             ELSE IF verdict = "skip" THEN rest
             ELSE IF item_matches(software, settings["match_key"], item)
             THEN IF render_raises(software, settings["tags_relative_url"],
                                   settings["platforms_relative_url"],
                                   <<"../index.html#list-of-licenses">>, now)
                  THEN [raised |-> TRUE, list |-> <<>>]
                  ELSE [raised |-> rest["raised"],
                        list |-> <<render_markdown_software(software,
                                       settings["tags_relative_url"],
                                       settings["platforms_relative_url"],
                                       <<"../index.html#list-of-licenses">>, now)>>
                                 \o rest["list"]]
             ELSE rest

PageAlwaysFull(markdown_fieldlist, markdown_page_header, content_header, markdown_software_list) ==
    markdown_fieldlist \o <<markdown_page_header>> \o <<content_header>>
        \o markdown_software_list

\* the page text: the full layout when a project was rendered, else the header
markdown_page_of(markdown_fieldlist, markdown_page_header, content_header, markdown_software_list) ==
    IF markdown_software_list # <<>>
    THEN markdown_fieldlist \o <<markdown_page_header>> \o <<content_header>>
            \o markdown_software_list
    ELSE <<markdown_page_header>>

\* the file a page goes to
item_output_file_name(module_options, item_type, item) ==
    ItemSettings(module_options, item_type)["output_dir"]
        \o <<to_kebab_case(item["name"] \o <<".md">>)>>

\* render_item_page up to the write: [raised, output_file_name, markdown_page]
render_item_page(module_options, item_type, item, software_list, now) ==
    LET settings == ItemSettings(module_options, item_type)
        looped == item_software_list(module_options["exclude_licenses"], settings,
                                     item, software_list, now)
    IN  [raised |-> looped["raised"],
         output_file_name |-> item_output_file_name(module_options, item_type, item),
         markdown_page |-> markdown_page_of(settings["markdown_fieldlist"],
                                            ItemHeader(item_type, item),
                                            settings["content_header"],
                                            looped["list"])]

\* ---------------------------------------------------- render_markdown_toctree
ToctreeUnslugged(tags) ==
    [block |-> "toctree",
     entries |-> [k \in 1..Len(tags) |-> << <<"tags">>, tags[k]["name"] \o <<".md">> >>]]

render_markdown_toctree(tags) ==
    [block |-> "toctree",
     entries |-> [k \in 1..Len(tags) |->
                    << <<"tags">>, to_kebab_case(tags[k]["name"] \o <<".md">>) >>]]

\* utils.render_markdown_licenses: the licenses summary, given the full
\* license list and the exclusion list
render_markdown_licenses(module_options, licenses) ==
    [block |-> "licenses", licenses |-> licenses,
     exclude_licenses |-> module_options["exclude_licenses"]]

\* ------------------------------------------------------------------ inputs
BaseOptions ==
    [source_directory |-> source_directory, output_directory |-> output_directory]

\* module_options with the optional keys given or left out
Options(excludes, output_files) ==
    {BaseOptions}
    \cup {BaseOptions @@ ("exclude_licenses" :> e) : e \in excludes}
    \cup {BaseOptions @@ ("output_file" :> o) : o \in output_files}
    \cup {BaseOptions @@ ("exclude_licenses" :> e) @@ ("output_file" :> o) :
            e \in excludes, o \in output_files}

\* label lists as load_yaml_data(..., sort_key='name') returns them
Labels(names, n) ==
    {items \in SeqUpTo({[name |-> x] : x \in names}, n) : IsSortedByName(items)}

\* the sorted label lists in which no name repeats
DistinctLabels(names) ==
    {items \in Labels(names, Cardinality(names)) :
        \A k, m \in 1..Len(items) : items[k] = items[m] => k = m}

Trees(tag_lists, platform_lists, software_lists) ==
    {[tags |-> t, platforms |-> p, software |-> s, licenses |-> [block |-> "licenses.yml"]] :
        t \in tag_lists, p \in platform_lists, s \in software_lists}

ProjectName(licenses) == IF Len(licenses) = 1 THEN "Foo" ELSE "Bar"

\* exclusion and matching: licenses against the exclusion list, tag and
\* platform membership, projects with and without platforms
SoftwareLabelled ==
    {[name |-> ProjectName(l), licenses |-> l, tags |-> <<<<"A">>>>,
      platforms |-> <<<<"P">>>>] : l \in {<<"MIT">>, <<"MIT", "Proprietary">>}}
    \cup {[name |-> ProjectName(l), licenses |-> l, tags |-> << <<"b">>, <<"A">> >>] :
        l \in {<<"MIT">>, <<"MIT", "Proprietary">>}}

InputsLabelled ==
    [src : Trees(DistinctLabels({<<"A">>, <<"b">>}),
                 Labels({<<"P">>}, MaxPlatforms),
                 SeqUpTo(SoftwareLabelled, MaxProjects)),
     config : {BaseOptions @@ ("exclude_licenses" :> e) :
                e \in {<<"Proprietary">>, <<"GPL-3.0">>}}]

\* paths: names that differ and share a slug, repeated names, output_file
InputsPaths ==
    [src : Trees(Labels({<<"A">>, <<"a">>, <<"a", " ", "b">>, <<"a", "-", "b">>}, MaxTags),
                 Labels({<<"a">>, <<"P">>}, MaxPlatforms),
                 {<<[name |-> "Foo", licenses |-> <<"MIT">>,
                     tags |-> <<<<"A">>>>, platforms |-> <<<<"P">>>>]>>}),
     config : Options({}, {<<"index", ".md">>, <<"home", ".md">>})]

\* age: projects with and without updated_at (a day number)
InputsAge ==
    [src : Trees({<<[name |-> <<"A">>]>>}, {<<[name |-> <<"P">>]>>},
                 SeqUpTo({[name |-> "Foo", licenses |-> <<"MIT">>, tags |-> <<<<"A">>>>,
                           platforms |-> <<<<"P">>>>, updated_at |-> 0],
                          [name |-> "Bar", licenses |-> <<"MIT">>, tags |-> <<<<"A">>>>]},
                         MaxProjects)),
     config : Options({}, {})]

\* records that lack name, licenses or tags
SoftwareLoose ==
    {[name |-> "Foo", licenses |-> l, tags |-> <<<<"A">>>>] : l \in {<<"MIT">>, <<"Proprietary">>}}
    \cup {[licenses |-> l, tags |-> <<<<"A">>>>] : l \in {<<"MIT">>, <<"Proprietary">>}}
    \cup {[name |-> "Foo", licenses |-> l] : l \in {<<"MIT">>, <<"Proprietary">>}}
    \cup {[licenses |-> l] : l \in {<<"MIT">>, <<"Proprietary">>}}
    \cup {[name |-> "Foo", tags |-> <<<<"A">>>>], [tags |-> <<<<"A">>>>],
          [name |-> "Foo"]}

InputsLoose ==
    [src : Trees({<<[name |-> <<"A">>]>>}, {<<>>}, SeqUpTo(SoftwareLoose, MaxProjects)),
     config : Options({<<"Proprietary">>}, {})]

Inputs == InputsLabelled \cup InputsPaths \cup InputsAge \cup InputsLoose

\* the instants datetime.now() may return, around the two thresholds of a
\* project updated on day 0
AgeDays ==
    ((WarningDays - Slack)..(WarningDays + Slack))
    \cup ((AlertDays - Slack)..(AlertDays + Slack))

Nows == {d * TicksPerDay + f : d \in AgeDays, f \in 0..(TicksPerDay - 1)}

\* ------------------------------------------------------------------- state
VARIABLES
    src,                    \* the source directory as the loaders return it
    config,                 \* module_options as configured
    step,                   \* step['module_options'] of the running call
    pc,                     \* position in render_markdown_multipage
    error,                  \* what ended the run, "none" while it runs
    tags, platforms, software_list,
    markdown_toctree,
    markdown_software_list, \* the index's accumulated fragments
    i,                      \* index loop position in software_list
    j,                      \* position in the tag and platform page loops
    clock,                  \* the last value datetime.now() returned
    rendered,               \* the render_markdown_software calls of the last step
    ensured,                \* directories os.mkdir created or found existing
    writes,                 \* the file writes so far, in order
    run,                    \* "first" or "second" run on the same input
    prev_run                \* the files the first run left, and when it ended

vars == <<src, config, step, pc, error, tags, platforms, software_list,
          markdown_toctree, markdown_software_list, i, j, clock, rendered,
          ensured, writes, run, prev_run>>

Fresh ==
    /\ step = config
    /\ pc = "start"
    /\ error = "none"
    /\ tags = <<>>
    /\ platforms = <<>>
    /\ software_list = <<>>
    /\ markdown_toctree = [block |-> "toctree", entries |-> <<>>]
    /\ markdown_software_list = <<>>
    /\ i = 1
    /\ j = 1
    /\ rendered = {}
    /\ ensured = {}
    /\ writes = <<>>

InitOver(inputs) ==
    /\ \E in \in inputs : src = in.src /\ config = in.config
    /\ Fresh
    /\ clock = 0
    /\ run = "first"
    /\ prev_run = [files |-> {}, clock |-> 0]

Init == InitOver(Inputs)

\* ----------------------------------------------- render_markdown_multipage
Fail(why) ==
    /\ pc' = "failed"
    /\ error' = why

\* the defaults of exclude_licenses and output_file
SetDefaults ==
    /\ pc = "start"
    /\ step' = step @@ ("exclude_licenses" :> <<>>) @@ ("output_file" :> <<"index", ".md">>)
    /\ pc' = "load"
    /\ UNCHANGED <<src, config, error, tags, platforms, software_list, markdown_toctree,
                   markdown_software_list, i, j, clock, rendered, ensured, writes,
                   run, prev_run>>

\* the four load_yaml_data calls and the reads of header.md and footer.md;
\* a missing source directory or file raises and ends the run
Load ==
    /\ pc = "load"
    /\ \E missing \in {"nothing", "source_directory", "header.md", "footer.md"} :
          IF missing = "nothing"
          THEN /\ tags' = src.tags
               /\ platforms' = src.platforms
               /\ software_list' = src.software
               /\ pc' = "toctree"
               /\ error' = error
          ELSE /\ Fail("load")
               /\ UNCHANGED <<tags, platforms, software_list>>
    /\ UNCHANGED <<src, config, step, markdown_toctree, markdown_software_list, i, j,
                   clock, rendered, ensured, writes, run, prev_run>>

RenderToctree ==
    /\ pc = "toctree"
    /\ markdown_toctree' = render_markdown_toctree(tags)
    /\ markdown_software_list' = <<>>
    /\ i' = 1
    /\ pc' = "index_loop"
    /\ UNCHANGED <<src, config, step, error, tags, platforms, software_list, j, clock,
                   rendered, ensured, writes, run, prev_run>>

IndexFilterOff(software, exclude_licenses) == "keep"

\* the license test of the index loop, as page_filter
index_filter(software, exclude_licenses) ==
    IF exclude_licenses = <<>> THEN "keep"
    ELSE IF "licenses" \notin DOMAIN software THEN "raise"
    ELSE IF \E k \in 1..Len(exclude_licenses) :
                exclude_licenses[k] \in Range(software["licenses"])
         THEN (IF "name" \in DOMAIN software THEN "skip" ELSE "raise")
         ELSE "keep"

\* the instants a step may read: the clock does not run backwards, and a
\* step that renders no project with updated_at does not read it
Readings(reads) == IF reads THEN {n \in Nows : n >= clock} ELSE {clock}

Call(software, now, markdown) ==
    [software |-> software, now |-> now,
     date_css_class |-> date_css_class_of(software, now), markdown |-> markdown]

\* one iteration of the index loop
IndexStep ==
    /\ pc = "index_loop"
    /\ i <= Len(software_list)
    /\ LET software == software_list[i]
           verdict == index_filter(software, step["exclude_licenses"])
           renders == verdict = "keep"
                      /\ ~render_raises(software, <<"tags/">>, <<"platforms/">>,
                                        <<"#list-of-licenses">>, clock)
       IN  \E now \in Readings(renders /\ "updated_at" \in DOMAIN software) :
              /\ clock' = now
              /\ IF verdict = "raise" \/ (verdict = "keep" /\ ~renders)
                 THEN /\ Fail("record")
                      /\ UNCHANGED <<markdown_software_list, i, rendered>>
                 ELSE /\ pc' = pc
                      /\ error' = error
                      /\ i' = i + 1
                      /\ IF verdict = "skip"
                         THEN /\ markdown_software_list' = markdown_software_list
                              /\ rendered' = {}
                         ELSE LET markdown == render_markdown_software(software,
                                                  <<"tags/">>, <<"platforms/">>,
                                                  <<"#list-of-licenses">>, now)
                              IN  /\ markdown_software_list' =
                                        markdown_software_list \o <<markdown>>
                                  /\ rendered' = {Call(software, now, markdown)}
    /\ UNCHANGED <<src, config, step, tags, platforms, software_list, markdown_toctree,
                   j, ensured, writes, run, prev_run>>

index_output_file_name(module_options) ==
    module_options["output_directory"] \o << <<"md">> >> \o <<module_options["output_file"]>>

\* the index text, in the order of the format call
index_markdown(module_options, toctree, software_markdown, licenses) ==
    <<[block |-> "fieldlist", text |-> ":tocdepth: 2\n"]>>
        \o <<[block |-> "header.md"]>>
        \o <<MARKDOWN_INDEX_CONTENT_HEADER>>
        \o <<toctree>>
        \o software_markdown
        \o <<render_markdown_licenses(module_options, licenses)>>
        \o <<[block |-> "footer.md"]>>

\* os.mkdir of /md/, /md/tags/ and /md/platforms/; FileExistsError is
\* passed over, a missing output_directory raises
MkDirs ==
    /\ pc = "index_loop"
    /\ i > Len(software_list)
    /\ \E output_directory_exists \in BOOLEAN :
          IF output_directory_exists
          THEN /\ ensured' = ensured \cup
                    {step["output_directory"] \o << <<"md">> >>,
                     step["output_directory"] \o << <<"md">>, <<"tags">> >>,
                     step["output_directory"] \o << <<"md">>, <<"platforms">> >>}
               /\ pc' = "write_index"
               /\ error' = error
          ELSE /\ Fail("mkdir")
               /\ ensured' = ensured
    /\ rendered' = {}
    /\ UNCHANGED <<src, config, step, tags, platforms, software_list, markdown_toctree,
                   markdown_software_list, i, j, clock, writes, run, prev_run>>

\* whether the directory of path exists: it does when the run ensured it,
\* else it may or may not
DirectoryStates(path) == IF Dirname(path) \in ensured THEN {TRUE} ELSE BOOLEAN

\* open(path, 'w+') creates the file when its directory exists
Opens(path, directory_exists) == directory_exists

Write(path, content, by) ==
    [path |-> path, content |-> content, by |-> by,
     parent_ensured |-> Dirname(path) \in ensured]

WriteIndex ==
    /\ pc = "write_index"
    /\ LET output_file_name == index_output_file_name(step)
       IN  \E directory_exists \in DirectoryStates(output_file_name) :
              IF Opens(output_file_name, directory_exists)
              THEN /\ writes' = Append(writes,
                          Write(output_file_name,
                                index_markdown(step, markdown_toctree,
                                               markdown_software_list, src.licenses),
                                [item_type |-> "index"]))
                   /\ pc' = "pages"
                   /\ error' = error
              ELSE /\ Fail("open")
                   /\ writes' = writes
    /\ j' = 1
    /\ UNCHANGED <<src, config, step, tags, platforms, software_list, markdown_toctree,
                   markdown_software_list, i, clock, rendered, ensured, run, prev_run>>

PlatformsFirst(tag_list, platform_list) ==
    [k \in 1..Len(platform_list) |-> [item_type |-> "platform", item |-> platform_list[k]]]
    \o [k \in 1..Len(tag_list) |-> [item_type |-> "tag", item |-> tag_list[k]]]

\* the render_item_page calls of the two loops, in order
page_calls(tag_list, platform_list) ==
    [k \in 1..Len(tag_list) |-> [item_type |-> "tag", item |-> tag_list[k]]]
    \o [k \in 1..Len(platform_list) |-> [item_type |-> "platform", item |-> platform_list[k]]]

\* the calls of render_markdown_software a page makes
PageCalls(module_options, item_type, item, now) ==
    LET settings == ItemSettings(module_options, item_type)
    IN  {Call(software_list[k], now,
              render_markdown_software(software_list[k], settings["tags_relative_url"],
                                       settings["platforms_relative_url"],
                                       <<"../index.html#list-of-licenses">>, now)) :
            k \in {n \in 1..Len(software_list) :
                    /\ page_filter(software_list[n], module_options["exclude_licenses"]) = "keep"
                    /\ item_matches(software_list[n], settings["match_key"], item)
                    /\ "tags" \in DOMAIN software_list[n]}}

\* one call of render_item_page from the tag loop or the platform loop
RenderItemPage ==
    /\ pc = "pages"
    /\ j <= Len(page_calls(tags, platforms))
    /\ LET call == page_calls(tags, platforms)[j]
           reads == \E c \in PageCalls(step, call.item_type, call.item, clock) :
                        "updated_at" \in DOMAIN c.software
       IN  \E now \in Readings(reads),
              directory_exists \in DirectoryStates(
                  item_output_file_name(step, call.item_type, call.item)) :
              LET page == render_item_page(step, call.item_type, call.item,
                                           software_list, now)
              IN  /\ clock' = now
                  /\ rendered' = PageCalls(step, call.item_type, call.item, now)
                  /\ IF page.raised
                     THEN /\ Fail("record")
                          /\ UNCHANGED <<writes, j>>
                     ELSE IF Opens(page.output_file_name, directory_exists)
                     THEN /\ writes' = Append(writes,
                                 Write(page.output_file_name, page.markdown_page, call))
                          /\ j' = j + 1
                          /\ pc' = pc
                          /\ error' = error
                     ELSE /\ Fail("open")
                          /\ UNCHANGED <<writes, j>>
    /\ UNCHANGED <<src, config, step, tags, platforms, software_list, markdown_toctree,
                   markdown_software_list, i, ensured, run, prev_run>>

\* os.mkdir of output_directory/_static, FileExistsError passed over
MkdirStatic ==
    /\ pc = "pages"
    /\ j > Len(page_calls(tags, platforms))
    /\ ensured' = ensured \cup {step["output_directory"] \o << <<"_static">> >>}
    /\ rendered' = {}
    /\ pc' = "write_css"
    /\ UNCHANGED <<src, config, step, error, tags, platforms, software_list,
                   markdown_toctree, markdown_software_list, i, j, clock, writes,
                   run, prev_run>>

output_css_file_name(module_options) ==
    module_options["source_directory"]
        \o << <<"html">>, <<"_static">>, <<"custom.css">> >>

WriteCss ==
    /\ pc = "write_css"
    /\ LET path == output_css_file_name(step)
       IN  \E directory_exists \in DirectoryStates(path) :
              IF Opens(path, directory_exists)
              THEN /\ writes' = Append(writes, Write(path, <<MARKDOWN_CSS>>, [item_type |-> "css"]))
                   /\ pc' = "done"
                   /\ error' = error
              ELSE /\ Fail("open")
                   /\ writes' = writes
    /\ UNCHANGED <<src, config, step, tags, platforms, software_list, markdown_toctree,
                   markdown_software_list, i, j, clock, rendered, ensured, run, prev_run>>

\* the files on disk after the writes: the last content written to each path
Files(ws) ==
    {[path |-> ws[k].path, content |-> ws[k].content] :
        k \in {n \in 1..Len(ws) : \A m \in (n + 1)..Len(ws) : ws[m].path # ws[n].path}}

\* the pipeline is run a second time on the same source directory and options
Rerun ==
    /\ pc = "done"
    /\ run = "first"
    /\ run' = "second"
    /\ prev_run' = [files |-> Files(writes), clock |-> clock]
    /\ step' = config
    /\ pc' = "start"
    /\ error' = "none"
    /\ tags' = <<>>
    /\ platforms' = <<>>
    /\ software_list' = <<>>
    /\ markdown_toctree' = [block |-> "toctree", entries |-> <<>>]
    /\ markdown_software_list' = <<>>
    /\ i' = 1
    /\ j' = 1
    /\ rendered' = {}
    /\ ensured' = {}
    /\ writes' = <<>>
    /\ UNCHANGED <<src, config, clock>>

Next ==
    \/ SetDefaults
    \/ Load
    \/ RenderToctree
    \/ IndexStep
    \/ MkDirs
    \/ WriteIndex
    \/ RenderItemPage
    \/ MkdirStatic
    \/ WriteCss

Spec == Init /\ [][Next]_vars

NextTwice == Next \/ Rerun

SpecTwice == InitOver(InputsAge) /\ [][NextTwice]_vars

\* ================================================================ properties
\* what the specification says of a project and a page, stated on the
\* inputs and the writes
Excluded(p) ==
    /\ "licenses" \in DOMAIN p
    /\ "exclude_licenses" \in DOMAIN config
    /\ Range(p["licenses"]) \cap Range(config["exclude_licenses"]) # {}

Projects == Range(src.software)

\* the fragment b describes project p
FragmentOf(p, b) ==
    /\ b.block = "software"
    /\ b.name = JinjaText(p, "name")
    /\ b.licenses = JinjaList(p, "licenses")
    /\ [k \in 1..Len(b.tags) |-> b.tags[k].name] = JinjaList(p, "tags")
    /\ [k \in 1..Len(b.platforms) |-> b.platforms[k].name] = JinjaList(p, "platforms")

OnPage(p, w) == \E k \in 1..Len(w.content) : FragmentOf(p, w.content[k])

Written == Range(writes)

IndexWrites == {w \in Written : w.by.item_type = "index"}

PageWrites == {w \in Written : w.by.item_type \in {"tag", "platform"}}

WritesFor(item_type, item) ==
    {w \in Written : w.by = [item_type |-> item_type, item |-> item]}

\* the labels of the source directory that name project p
LabelsOf(p) ==
    {[item_type |-> "tag", item |-> t] :
        t \in {x \in Range(src.tags) : x.name \in Range(JinjaList(p, "tags"))}}
    \cup {[item_type |-> "platform", item |-> t] :
        t \in {x \in Range(src.platforms) : x.name \in Range(JinjaList(p, "platforms"))}}

\* C1: a project with a license in exclude_licenses has its fragment in no
\* written page, index or tag or platform page; when the run completes, a
\* project with no excluded license has its fragment in the written index
\* and in the page written for every tag and platform it names.
C1_ExclusionOnEveryPage ==
    \A p \in Projects :
        /\ Excluded(p) => \A w \in Written : ~OnPage(p, w)
        /\ (pc = "done" /\ ~Excluded(p)) =>
              /\ IndexWrites # {}
              /\ \A w \in IndexWrites : OnPage(p, w)
              /\ \A c \in LabelsOf(p) :
                    /\ WritesFor(c.item_type, c.item) # {}
                    /\ \A w \in WritesFor(c.item_type, c.item) : OnPage(p, w)

C1_Witness ==
    /\ pc = "done"
    /\ \E p, q \in Projects :
          /\ Excluded(p) /\ LabelsOf(p) # {}
          /\ ~Excluded(q)
          /\ \E c, d \in LabelsOf(q) : c.item_type = "tag" /\ d.item_type = "platform"

\* the labels the run was given, as render_item_page calls
LabelCalls ==
    {[item_type |-> "tag", item |-> t] : t \in Range(src.tags)}
    \cup {[item_type |-> "platform", item |-> t] : t \in Range(src.platforms)}

\* some project that is not license-excluded names the label
HasMatch(c) == \E p \in Projects : ~Excluded(p) /\ c \in LabelsOf(p)

HeaderBlock(c) ==
    [block |-> IF c.item_type = "tag" THEN "tag_header" ELSE "platform_header",
     item |-> c.item]

\* the run got past the index write and has ended or is about to write the
\* stylesheet
PagesOver == Len(writes) >= 1 /\ pc \in {"write_css", "done", "failed"}

\* C2: the page written for a label that no non-excluded project names is
\* the header block alone (no content header, no fragment), and once the
\* index is written every label gets its page: no page is skipped and
\* rendering a page ends no run.
C2_EmptyLabelPageIsHeaderOnly ==
    /\ \A w \in PageWrites : ~HasMatch(w.by) => w.content = <<HeaderBlock(w.by)>>
    /\ PagesOver => \A c \in LabelCalls : WritesFor(c.item_type, c.item) # {}
    /\ Len(writes) >= 1 => error \in {"none", "open"}

C2_Witness ==
    /\ pc = "done"
    /\ \E c, d \in LabelCalls :
          /\ c.item_type = "tag" /\ d.item_type = "platform"
          /\ ~HasMatch(c) /\ ~HasMatch(d)
          /\ \E p \in Projects : Excluded(p) /\ c \in LabelsOf(p)
          /\ WritesFor(c.item_type, c.item) # {}

\* what a fragment shows of its project, and the same of a project
Shown(b) ==
    [name |-> b.name, licenses |-> b.licenses,
     tags |-> [k \in 1..Len(b.tags) |-> b.tags[k].name],
     platforms |-> [k \in 1..Len(b.platforms) |-> b.platforms[k].name]]

ShownOf(p) ==
    [name |-> JinjaText(p, "name"), licenses |-> JinjaList(p, "licenses"),
     tags |-> JinjaList(p, "tags"), platforms |-> JinjaList(p, "platforms")]

IsFragment(b) == b.block = "software"

\* the projects a label's page is to list, in input order
Listed(c) ==
    LET key == IF c.item_type = "tag" THEN "tags" ELSE "platforms"
        Belongs(p) == ~Excluded(p) /\ c.item.name \in Range(JinjaList(p, key))
    IN  SelectSeq(src.software, Belongs)

\* C9: the fragments on a written label page are those of the non-excluded
\* projects whose tags (tag page) or platforms (platform page) hold the
\* label's name, one fragment per project, in the order of the project list;
\* a project without platforms is on no platform page.
C9_PageListsMatchingProjectsInOrder ==
    \A w \in PageWrites :
        LET fragments == SelectSeq(w.content, IsFragment)
            listed == Listed(w.by)
        IN  /\ Len(fragments) = Len(listed)
            /\ \A k \in 1..Len(listed) : Shown(fragments[k]) = ShownOf(listed[k])

C9_Witness ==
    /\ \E w \in PageWrites :
          /\ w.by.item_type = "tag"
          /\ Len(Listed(w.by)) = 2
          /\ Listed(w.by)[1] # Listed(w.by)[2]
    /\ \E w \in PageWrites :
          /\ w.by.item_type = "tag"
          /\ Len(Listed(w.by)) = 1
          /\ Len(src.software) = 2
    /\ \E w \in PageWrites :
          /\ w.by.item_type = "platform"
          /\ Len(Listed(w.by)) = 1
          /\ \E p \in Projects : "platforms" \notin DOMAIN p /\ ~Excluded(p)

\* the k-th write is the page of this label
IsAt(k, item_type, item) == writes[k].by = [item_type |-> item_type, item |-> item]

Tn == Len(src.tags)

Pn == Len(src.platforms)

Manifest(w) ==
    LET IsToctree(b) == b.block = "toctree"
    IN  SelectSeq(w.content, IsToctree)

\* C10: the written index holds one manifest with one entry per tag, in the
\* order of the tag list, and each entry, taken relative to the directory
\* of the index file, is the path the page of that tag is written to; when
\* the run completes every entry names a written page and every written tag
\* page is named by an entry.
C10_ManifestNamesTagPages ==
    \A w \in IndexWrites :
        /\ Len(Manifest(w)) = 1
        /\ LET entries == Manifest(w)[1].entries
               Target(k) == Dirname(w.path) \o entries[k]
           IN  /\ Len(entries) = Tn
               /\ \A k \in 1..Tn :
                     \A v \in WritesFor("tag", src.tags[k]) : v.path = Target(k)
               /\ pc = "done" =>
                     /\ \A k \in 1..Tn : \E v \in PageWrites :
                           v.by.item_type = "tag" /\ v.path = Target(k)
                     /\ \A v \in PageWrites : v.by.item_type = "tag" =>
                           \E k \in 1..Tn : v.path = Target(k)

C10_Witness ==
    /\ pc = "done"
    /\ Tn >= 2
    /\ src.tags[1].name = <<"A">>
    /\ src.tags[2].name = <<"a", " ", "b">>
    /\ "output_file" \in DOMAIN config

\* whole days between updated_at and now
AgeInDays(c) == (c.now - c.software["updated_at"] * TicksPerDay) \div TicksPerDay

BadgeForAge(d) ==
    IF d >= AlertDays THEN "redbox"
    ELSE IF d >= WarningDays THEN "orangebox"
    ELSE "updated-at"

\* C3: a project with updated_at is classed by its age in whole days, 365
\* or more alert, 186 to 364 warning, 185 or fewer default, and its
\* fragment carries the badge of that class; a project without updated_at
\* gets a fragment with no age badge.
C3_AgeBadgeByDays ==
    \A c \in rendered :
        IF "updated_at" \in DOMAIN c.software
        THEN /\ c.date_css_class = BadgeForAge(AgeInDays(c))
             /\ "date_css_class" \in DOMAIN c.markdown
             /\ c.markdown["date_css_class"] = BadgeForAge(AgeInDays(c))
        ELSE "date_css_class" \notin DOMAIN c.markdown

\* C4: a second run on the same source directory and options, at a later
\* time, leaves the same paths with the same content as the first.
C4_RerunWritesSameFiles ==
    (pc = "done" /\ run = "second") => Files(writes) = prev_run.files

C4_Witness ==
    /\ pc = "done"
    /\ run = "second"
    /\ prev_run.files # {}
    /\ \E p \in Projects :
          /\ "updated_at" \in DOMAIN p
          /\ date_css_class_of(p, prev_run.clock) = "updated-at"
          /\ date_css_class_of(p, clock) = "redbox"
          /\ \E w \in PageWrites : OnPage(p, w)

\* C5: no two writes of a run go to the same path.
C5_EachPathWrittenOnce ==
    \A k, m \in 1..Len(writes) : writes[k].path = writes[m].path => k = m

IsPrefix(d, path) == Len(d) <= Len(path) /\ SubSeq(path, 1, Len(d)) = d

\* C6: every file written lies under output_directory and not under
\* source_directory, in a directory the run has ensured exists before the
\* write; the stylesheet goes to the asset directory the run creates.
C6_WritesUnderOutputDirectory ==
    \A w \in Written :
        /\ IsPrefix(config["output_directory"], w.path)
        /\ ~IsPrefix(config["source_directory"], w.path)
        /\ w.parent_ensured
        /\ w.by.item_type = "css" =>
              Dirname(w.path) = config["output_directory"] \o << <<"_static">> >>

BreaksRecordInvariant(p) ==
    "name" \notin DOMAIN p \/ "licenses" \notin DOMAIN p \/ "tags" \notin DOMAIN p

Excluding == "exclude_licenses" \in DOMAIN config /\ config["exclude_licenses"] # <<>>

\* the records the index loop raises on: licenses missing while there is an
\* exclusion list, name missing on an excluded project, tags missing on a
\* project that is not excluded
Raising(p) ==
    \/ Excluding /\ "licenses" \notin DOMAIN p
    \/ Excluded(p) /\ "name" \notin DOMAIN p
    \/ /\ ~Excluded(p)
       /\ ~(Excluding /\ "licenses" \notin DOMAIN p)
       /\ "tags" \notin DOMAIN p

====
